---- MODULE Spec2Model ----
(***************************************************************************)
(* Model of the product list page (src/unnamed/part_000): the onMounted    *)
(* fetch of the whole remote catalogue, the three computed views           *)
(* (filteredProducts, sortedFilteredProducts, paginatedProducts), the      *)
(* page-reset watcher and the four user inputs of the template.            *)
(*                                                                         *)
(* Strings are sequences of one-character strings, numbers are naturals.   *)
(* A record that lacks a field is a record whose DOMAIN lacks it.          *)
(***************************************************************************)
EXTENDS Integers, Sequences, FiniteSets, TLC

----------------------------------------------------------------------------
(* Program constants *)

pageSize == 10

limit == 30

probeLimit == 1

fallbackTotal == 100

(* Bounds of the model *)

MaxTotal == 61

MaxLen == 2

MaxItems == 21

----------------------------------------------------------------------------
(* JavaScript strings and numbers *)

Min(a, b) == IF a < b THEN a ELSE b

Max(a, b) == IF a > b THEN a ELSE b

DigitChar == <<"0", "1", "2", "3", "4", "5", "6", "7", "8", "9">>

\* String(n) for a non-negative integer n: its decimal digits.
RECURSIVE NumberToString(_)
NumberToString(n) ==
    IF n < 10 THEN <<DigitChar[n + 1]>>
    ELSE Append(NumberToString(n \div 10), DigitChar[(n % 10) + 1])

\* The fields of Product declared number; every other field is a string.
NumberFields == {"id", "price", "rating"}

\* typeof product[field]
typeof(product, field) ==
    IF field \notin DOMAIN product THEN "undefined"
    ELSE IF field \in NumberFields THEN "number"
    ELSE "string"

\* String(val) for the value of a field of a product.
String(product, field) ==
    IF typeof(product, field) = "number" THEN NumberToString(product[field])
    ELSE product[field]

LowerChar(c) ==
    CASE c = "A" -> "a"
      [] c = "B" -> "b"
      [] c = "C" -> "c"
      [] c = "D" -> "d"
      [] c = "Z" -> "z"
      [] OTHER -> c

\* String.prototype.toLowerCase
toLowerCase(s) == [i \in 1..Len(s) |-> LowerChar(s[i])]

\* String.prototype.includes
includes(s, q) ==
    \E i \in 0..(Len(s) - Len(q)) : SubSeq(s, i + 1, i + Len(q)) = q

\* Primary collation order of the characters in use: digits before letters,
\* letters alphabetical whatever their case.
PrimaryOrder == <<"0", "1", "2", "3", "4", "5", "6", "7", "8", "9",
                  "a", "b", "c", "d", "u", "x", "z">>

RankTable ==
    [c \in {PrimaryOrder[i] : i \in 1..Len(PrimaryOrder)} |->
        CHOOSE i \in 1..Len(PrimaryOrder) : PrimaryOrder[i] = c]

PrimaryRank(c) == RankTable[LowerChar(c)]

\* Comparison of the primary keys, left to right; a proper prefix comes first.
RECURSIVE ComparePrimary(_, _)
ComparePrimary(a, b) ==
    IF a = <<>> /\ b = <<>> THEN 0
    ELSE IF a = <<>> THEN -1
    ELSE IF b = <<>> THEN 1
    ELSE IF PrimaryRank(Head(a)) < PrimaryRank(Head(b)) THEN -1
    ELSE IF PrimaryRank(Head(a)) > PrimaryRank(Head(b)) THEN 1
    ELSE ComparePrimary(Tail(a), Tail(b))

\* Tie-break of strings with equal primary keys: at the first position where
\* they differ, the lower-case letter comes first.
RECURSIVE CompareCase(_, _)
CompareCase(a, b) ==
    IF a = <<>> \/ b = <<>> THEN 0
    ELSE IF Head(a) = Head(b) THEN CompareCase(Tail(a), Tail(b))
    ELSE IF LowerChar(Head(a)) = Head(a) THEN -1
    ELSE 1

\* String.prototype.localeCompare in the default locale.
localeCompare(a, b) ==
    LET primary == ComparePrimary(a, b)
    IN  IF primary # 0 THEN primary ELSE CompareCase(a, b)

\* Array.prototype.slice(start, end) with 0-based, possibly negative, indices.
RelativeIndex(i, len) == IF i < 0 THEN Max(len + i, 0) ELSE Min(i, len)

slice(arr, start, end) ==
    SubSeq(arr, RelativeIndex(start, Len(arr)) + 1, RelativeIndex(end, Len(arr)))

----------------------------------------------------------------------------
(* Products the catalogue endpoint can return *)

P1 == [id |-> 1, title |-> <<"B">>, description |-> <<"x">>, price |-> 10,
       rating |-> 4, brand |-> <<"a">>, category |-> <<"c">>,
       thumbnail |-> <<"u">>]

P2 == [id |-> 2, title |-> <<"A">>, description |-> <<"x">>, price |-> 20,
       rating |-> 5, brand |-> <<"B">>, category |-> <<"c">>,
       thumbnail |-> <<"u">>]

\* A product without brand, as the endpoint returns for some categories.
P3 == [id |-> 3, title |-> <<"b">>, description |-> <<"x", "D">>, price |-> 10,
       rating |-> 3, category |-> <<"d">>, thumbnail |-> <<"u">>]

P4 == [id |-> 12, title |-> <<"a", "b">>, description |-> <<>>, price |-> 5,
       rating |-> 4, brand |-> <<"a">>, category |-> <<"c">>,
       thumbnail |-> <<"u">>]

P5 == [id |-> 5, title |-> <<"c">>, description |-> <<"x">>, price |-> 7,
       rating |-> 2, brand |-> <<"b">>, category |-> <<"d">>,
       thumbnail |-> <<"u">>]

P6 == [id |-> 6, title |-> <<"C">>, description |-> <<"x">>, price |-> 7,
       rating |-> 5, brand |-> <<"b">>, category |-> <<"c">>,
       thumbnail |-> <<"u">>]

Pool == <<P1, P2, P3>>

Catalogue == <<P1, P2, P3, P4, P5, P6>>

\* Texts the user can type into the search input.
Queries == {<<>>, <<"A">>, <<"1", "0">>, <<"z", "z">>}

\* The options of the sort select.
Columns == {"title", "price", "rating", "brand", "category"}

Directions == {"asc", "desc"}

----------------------------------------------------------------------------
(* State *)

VARIABLES
    products,      \* products.value: the raw collection
    productsRef,   \* which array products.value is: "initial" or "result"
    loading,       \* loading.value
    search,        \* search.value
    sort,          \* sort.value: [column, direction]
    page,          \* page.value
    watched,       \* the values the watcher last saw: <<filteredProducts, sort>>
    pc,            \* where onMounted is: idle, probe, page, ready, error
    total,         \* local total of onMounted
    skip,          \* local skip of onMounted
    result,        \* local result of onMounted
    requests,      \* the requests issued so far, in order
    responses,     \* the bodies received so far, in order
    pending,       \* number of requests awaiting their response
    consoleErrors, \* number of console.error calls
    filteredView,  \* the value filteredProducts holds
    sortedView,    \* the value sortedFilteredProducts holds
    rows,          \* the value paginatedProducts holds: the rows of the table
    last           \* the last step taken and whether the page index was above 1

vars == <<products, productsRef, loading, search, sort, page, watched, pc,
          total, skip, result, requests, responses, pending, consoleErrors,
          filteredView, sortedView, rows, last>>

fetchVars == <<pc, total, skip, result, requests, responses, pending,
               consoleErrors>>

----------------------------------------------------------------------------
(* Computed views *)

\* The slip of leaving the search text as typed: an upper-case letter in it
\* matches nothing.
productMatchesAsTyped(product, q) ==
    \E field \in DOMAIN product :
        includes(toLowerCase(String(product, field)), q)

\* The predicate of the filter call: some value of the product, as a
\* lower-cased string, includes the lower-cased search text.
productMatches(product, q) ==
    \E field \in DOMAIN product :
        includes(toLowerCase(String(product, field)), toLowerCase(q))

\* Array.prototype.filter
RECURSIVE filter(_, _)
filter(items, q) ==
    IF items = <<>> THEN <<>>
    ELSE IF productMatches(Head(items), q)
         THEN <<Head(items)>> \o filter(Tail(items), q)
         ELSE filter(Tail(items), q)

FilterOf(items, q) == IF q = <<>> THEN items ELSE filter(items, q)

filteredProducts == FilterOf(products, search)

\* The slip of reversing only the string branch for desc.
compareNumbersAscending(a, b, column, direction) ==
    IF typeof(a, column) = "string" /\ typeof(b, column) = "string"
    THEN IF direction = "asc" THEN localeCompare(a[column], b[column])
         ELSE localeCompare(b[column], a[column])
    ELSE IF typeof(a, column) = "number" /\ typeof(b, column) = "number"
    THEN a[column] - b[column]
    ELSE 0

\* The slip of ordering a record without the field before the others.
compareMissingFirst(a, b, column, direction) ==
    IF typeof(a, column) = "string" /\ typeof(b, column) = "string"
    THEN IF direction = "asc" THEN localeCompare(a[column], b[column])
         ELSE localeCompare(b[column], a[column])
    ELSE IF typeof(a, column) = "number" /\ typeof(b, column) = "number"
    THEN IF direction = "asc" THEN a[column] - b[column]
         ELSE b[column] - a[column]
    ELSE IF typeof(a, column) = "undefined" /\ typeof(b, column) # "undefined"
    THEN -1
    ELSE IF typeof(b, column) = "undefined" /\ typeof(a, column) # "undefined"
    THEN 1
    ELSE 0

\* The slip of a comparator that ignores the direction.
compareAscending(a, b, column, direction) ==
    IF typeof(a, column) = "string" /\ typeof(b, column) = "string"
    THEN localeCompare(a[column], b[column])
    ELSE IF typeof(a, column) = "number" /\ typeof(b, column) = "number"
    THEN a[column] - b[column]
    ELSE 0

\* The comparator handed to sort.
compare(a, b, column, direction) ==
    IF typeof(a, column) = "string" /\ typeof(b, column) = "string"
    THEN IF direction = "asc" THEN localeCompare(a[column], b[column])
         ELSE localeCompare(b[column], a[column])
    ELSE IF typeof(a, column) = "number" /\ typeof(b, column) = "number"
    THEN IF direction = "asc" THEN a[column] - b[column]
         ELSE b[column] - a[column]
    ELSE 0

\* Array.prototype.sort is stable: an element goes after every element already
\* placed that does not compare greater than it.
InsertSorted(placed, x, column, direction) ==
    LET notGreater == {j \in 1..Len(placed) :
                          compare(placed[j], x, column, direction) <= 0}
        k == IF notGreater = {} THEN 0
             ELSE CHOOSE j \in notGreater : \A i \in notGreater : i <= j
    IN  SubSeq(placed, 1, k) \o <<x>> \o SubSeq(placed, k + 1, Len(placed))

RECURSIVE SortFrom(_, _, _, _)
SortFrom(placed, rest, column, direction) ==
    IF rest = <<>> THEN placed
    ELSE SortFrom(InsertSorted(placed, Head(rest), column, direction),
                  Tail(rest), column, direction)

SortOf(items, column, direction) ==
    IF column = "" \/ direction = "" THEN items
    ELSE SortFrom(<<>>, items, column, direction)

sortedFilteredProducts == SortOf(filteredProducts, sort.column, sort.direction)

\* The slip of a 0-based page index.
PageOfFromZero(items, p) == slice(items, p * pageSize, p * pageSize + pageSize)

\* The slice of paginatedProducts for page index p.
PageOf(items, p) == slice(items, (p - 1) * pageSize, (p - 1) * pageSize + pageSize)

paginatedProducts == PageOf(sortedFilteredProducts, page)

\* The pages UPagination offers for total and items-per-page.
PageCount == Max(1, (Len(sortedView) + pageSize - 1) \div pageSize)

----------------------------------------------------------------------------
(* What the catalogue endpoint can answer *)

\* Totals the probe can report: none, one page, a page boundary, several pages.
ProbeTotals == {t \in 0..MaxTotal : t % limit \in {0, 1, limit \div 2}}

\* A probe body either carries total or lacks the field.
ProbeBodies == {[total |-> t] : t \in ProbeTotals} \cup {[skip |-> 0]}

\* The records the endpoint holds from offset s on: the catalogue, the
\* catalogue from its end, then single records.
ServerPage(s) ==
    IF s = 0 THEN Catalogue
    ELSE IF s = limit THEN [i \in 1..Len(Catalogue) |-> Catalogue[Len(Catalogue) + 1 - i]]
    ELSE <<Catalogue[((s \div limit) % Len(Catalogue)) + 1]>>

\* The body of the page at offset s carries the records, fewer than limit, or
\* lacks the products field.
PageBodies(s) == {[products |-> ServerPage(s)], [skip |-> s]}

\* initial.total || 100
TotalOf(initial) ==
    IF "total" \in DOMAIN initial /\ initial.total # 0 THEN initial.total
    ELSE fallbackTotal

\* The slip of adding a page in front of the records already held.
PushedInFront(acc, res) ==
    IF "products" \in DOMAIN res THEN res.products \o acc ELSE acc

\* result after: if (res?.products) result.push(...res.products)
Pushed(acc, res) ==
    IF "products" \in DOMAIN res THEN acc \o res.products ELSE acc

ProbeRequest == [limit |-> probeLimit]

PageRequest(s) == [limit |-> limit, skip |-> s]

----------------------------------------------------------------------------
(* The watcher of [filteredProducts, sort] *)

\* An array no reference held so far points to.
NewArray(held) == IF held = "filterA" THEN "filterB" ELSE "filterA"

\* The array filteredProducts returns once it is computed again: products.value
\* itself for an empty search text, else the new array filter allocates.
FilteredRef(q, ref) == IF q = <<>> THEN ref ELSE NewArray(watched[1])

\* The slip of watching products in place of filteredProducts.
SourcesOfProducts(filteredRef) == <<productsRef, "sort">>

\* The sources as the watcher reads them: filteredProducts.value and sort.value.
\* sort.value is the one object made at setup; the inputs assign its properties.
Sources(filteredRef) == <<filteredRef, "sort">>

\* The callback runs when a source is another value than the one last seen.
Triggered(sources) == \E i \in 1..2 : sources[i] # watched[i]

\* The slip of a watcher whose callback leaves the page index alone.
PageAfterWatchNever(sources, p) == p

\* The slip of a watcher that runs on every flush, as one watching
\* paginatedProducts would after a page selection.
PageAfterWatchAlways(sources, p) == 1

\* The page index after the watcher has been flushed.
PageAfterWatch(sources, p) == IF Triggered(sources) THEN 1 ELSE p

----------------------------------------------------------------------------
(* The computed values after a step *)

\* The refs each getter reads, besides the computed before it in the chain.
FilteredDeps == {"products", "search"}

\* The slip of a sort spec whose properties are not tracked.
SortedDepsUntracked == {}

SortedDeps == {"sort"}

PaginatedDeps == {"page"}

\* The slip of sorting filteredProducts.value itself.
SortOperandShared == "filtered"

\* The array sort orders in place: the copy made by slice().
SortOperand == "copy"

\* The refs a step has written: those it assigns, and page when the watcher
\* or the pagination has changed it.
Written(assigned, pageN) == assigned \cup (IF pageN # page THEN {"page"} ELSE {})

\* The getters whose dependencies were written run again, each on the value
\* of the one before it; the others keep the value they hold. The in-place
\* sort changes the array it is given: the copy, or the array shared with
\* filteredProducts and, for an empty search text, with products.
Render(written, productsN, searchN, sortN, pageN) ==
    LET filteredDirty == written \cap FilteredDeps # {}
        sortedDirty == filteredDirty \/ written \cap SortedDeps # {}
        shared == sortedDirty /\ SortOperand = "filtered"
        rowsDirty == sortedDirty \/ written \cap PaginatedDeps # {}
    IN  \E filtered \in {IF filteredDirty THEN FilterOf(productsN, searchN)
                         ELSE filteredView} :
        \E sorted \in {IF sortedDirty
                       THEN SortOf(filtered, sortN.column, sortN.direction)
                       ELSE sortedView} :
            /\ sortedView' = sorted
            /\ filteredView' = IF shared THEN sorted ELSE filtered
            /\ products' = IF shared /\ searchN = <<>> THEN sorted ELSE productsN
            /\ rows' = IF rowsDirty THEN PageOf(sorted, pageN) ELSE rows

----------------------------------------------------------------------------
(* onMounted *)

Init ==
    /\ products = <<>>
    /\ productsRef = "initial"
    /\ loading = FALSE
    /\ search = <<>>
    /\ sort = [column |-> "title", direction |-> "asc"]
    /\ page = 1
    /\ watched = Sources("initial")
    /\ pc = "idle"
    /\ total = 0
    /\ skip = 0
    /\ result = <<>>
    /\ requests = <<>>
    /\ responses = <<>>
    /\ pending = 0
    /\ consoleErrors = 0
    /\ filteredView = <<>>
    /\ sortedView = <<>>
    /\ rows = <<>>
    /\ last = [op |-> "setup", later |-> FALSE]

\* loading.value = true, then the probe request is sent and awaited.
Mounted ==
    /\ pc = "idle"
    /\ loading' = TRUE
    /\ requests' = Append(requests, ProbeRequest)
    /\ pending' = pending + 1
    /\ pc' = "probe"
    /\ last' = [op |-> "mounted", later |-> page > 1]
    /\ UNCHANGED <<products, productsRef, search, sort, page, watched, total,
                   skip, result, responses, consoleErrors, filteredView,
                   sortedView, rows>>

\* The off-by-one slip: the loop also runs for skip = total.
LoopTestInclusive(s, t) == s <= t

\* skip < total
LoopTest(s, t) == s < t

\* The slip of assigning products.value inside the loop, page by page.
ContinuePublishing(t, s, acc) ==
    /\ total' = t
    /\ skip' = s
    /\ result' = acc
    /\ consoleErrors' = consoleErrors
    /\ productsRef' = "result"
    /\ watched' = Sources(FilteredRef(search, "result"))
    /\ page' = PageAfterWatch(Sources(FilteredRef(search, "result")), page)
    /\ Render(Written({"products"},
                      PageAfterWatch(Sources(FilteredRef(search, "result")), page)),
              acc, search, sort,
              PageAfterWatch(Sources(FilteredRef(search, "result")), page))
    /\ IF LoopTest(s, t)
       THEN /\ requests' = Append(requests, [limit |-> limit, skip |-> s])
            /\ pending' = pending
            /\ pc' = "page"
            /\ loading' = loading
       ELSE /\ requests' = requests
            /\ pending' = pending - 1
            /\ pc' = "ready"
            /\ loading' = FALSE

\* The for test with the locals as given: either the next page request is sent
\* and awaited, or the loop ends, products.value = result, loading.value = false
\* and the watcher sees the new filteredProducts.
Continue(t, s, acc) ==
    /\ total' = t
    /\ skip' = s
    /\ result' = acc
    /\ consoleErrors' = consoleErrors
    /\ IF LoopTest(s, t)
       THEN /\ requests' = Append(requests, PageRequest(s))
            /\ pending' = pending
            /\ pc' = "page"
            /\ UNCHANGED <<products, productsRef, loading, page, watched,
                           filteredView, sortedView, rows>>
       ELSE /\ requests' = requests
            /\ pending' = pending - 1
            /\ pc' = "ready"
            /\ productsRef' = "result"
            /\ loading' = FALSE
            /\ watched' = Sources(FilteredRef(search, "result"))
            /\ page' = PageAfterWatch(Sources(FilteredRef(search, "result")), page)
            /\ Render(Written({"products"},
                              PageAfterWatch(Sources(FilteredRef(search, "result")),
                                             page)),
                      acc, search, sort,
                      PageAfterWatch(Sources(FilteredRef(search, "result")), page))

\* The probe response arrives: total is taken from it and the loop starts.
ProbeResponse(initial) ==
    /\ pc = "probe"
    /\ responses' = Append(responses, initial)
    /\ Continue(TotalOf(initial), 0, <<>>)
    /\ last' = [op |-> "response", later |-> page > 1]
    /\ UNCHANGED <<search, sort>>

\* A page response arrives: its records are pushed and skip advances.
PageResponse(res) ==
    /\ pc = "page"
    /\ responses' = Append(responses, res)
    /\ Continue(total, skip + limit, Pushed(result, res))
    /\ last' = [op |-> "response", later |-> page > 1]
    /\ UNCHANGED <<search, sort>>

\* The slip of assigning products.value in finally: the pages received before
\* the failure are shown.
RequestFailsKeepingPages ==
    /\ pc \in {"probe", "page"}
    /\ pending' = pending - 1
    /\ consoleErrors' = consoleErrors + 1
    /\ loading' = FALSE
    /\ pc' = "error"
    /\ productsRef' = "result"
    /\ watched' = Sources(FilteredRef(search, "result"))
    /\ page' = PageAfterWatch(Sources(FilteredRef(search, "result")), page)
    /\ Render(Written({"products"},
                      PageAfterWatch(Sources(FilteredRef(search, "result")), page)),
              result, search, sort,
              PageAfterWatch(Sources(FilteredRef(search, "result")), page))
    /\ last' = [op |-> "failure", later |-> page > 1]
    /\ UNCHANGED <<search, sort, total, skip, result, requests, responses>>

\* The slip of fetching again from catch.
RequestFailsRetrying ==
    /\ pc \in {"probe", "page"}
    /\ consoleErrors' = consoleErrors + 1
    /\ requests' = Append(requests, ProbeRequest)
    /\ pc' = "probe"
    /\ last' = [op |-> "failure", later |-> page > 1]
    /\ UNCHANGED <<products, productsRef, loading, search, sort, page, watched,
                   total, skip, result, responses, pending, filteredView,
                   sortedView, rows>>

\* The slip of clearing loading after the loop in place of finally.
RequestFailsLoading ==
    /\ pc \in {"probe", "page"}
    /\ pending' = pending - 1
    /\ consoleErrors' = consoleErrors + 1
    /\ pc' = "error"
    /\ last' = [op |-> "failure", later |-> page > 1]
    /\ UNCHANGED <<products, productsRef, loading, search, sort, page, watched,
                   total, skip, result, requests, responses, filteredView,
                   sortedView, rows>>

\* The awaited request rejects: catch logs it, finally clears loading.
RequestFails ==
    /\ pc \in {"probe", "page"}
    /\ pending' = pending - 1
    /\ consoleErrors' = consoleErrors + 1
    /\ loading' = FALSE
    /\ pc' = "error"
    /\ last' = [op |-> "failure", later |-> page > 1]
    /\ UNCHANGED <<products, productsRef, search, sort, page, watched, total,
                   skip, result, requests, responses, filteredView, sortedView,
                   rows>>

----------------------------------------------------------------------------
(* The inputs of the template *)

\* v-model="search": the input holds another text.
SetSearch(q) ==
    /\ pc # "idle"
    /\ q # search
    /\ search' = q
    /\ watched' = Sources(FilteredRef(q, productsRef))
    /\ page' = PageAfterWatch(Sources(FilteredRef(q, productsRef)), page)
    /\ Render(Written({"search"},
                      PageAfterWatch(Sources(FilteredRef(q, productsRef)), page)),
              products, q, sort,
              PageAfterWatch(Sources(FilteredRef(q, productsRef)), page))
    /\ last' = [op |-> "search", later |-> page > 1]
    /\ UNCHANGED <<productsRef, loading, sort>>
    /\ UNCHANGED fetchVars

\* v-model="sort.column": another option of the select is chosen. The property
\* of sort.value is assigned; filteredProducts is not computed again.
SetSortColumn(c) ==
    /\ pc # "idle"
    /\ c # sort.column
    /\ sort' = [sort EXCEPT !.column = c]
    /\ watched' = Sources(watched[1])
    /\ page' = PageAfterWatch(Sources(watched[1]), page)
    /\ Render(Written({"sort"}, PageAfterWatch(Sources(watched[1]), page)),
              products, search, [sort EXCEPT !.column = c],
              PageAfterWatch(Sources(watched[1]), page))
    /\ last' = [op |-> "column", later |-> page > 1]
    /\ UNCHANGED <<productsRef, loading, search>>
    /\ UNCHANGED fetchVars

toggleSortDirection ==
    /\ pc # "idle"
    /\ sort' = [sort EXCEPT !.direction = IF sort.direction = "asc" THEN "desc"
                                          ELSE "asc"]
    /\ watched' = Sources(watched[1])
    /\ page' = PageAfterWatch(Sources(watched[1]), page)
    /\ Render(Written({"sort"}, PageAfterWatch(Sources(watched[1]), page)),
              products, search,
              [sort EXCEPT !.direction = IF sort.direction = "asc" THEN "desc"
                                         ELSE "asc"],
              PageAfterWatch(Sources(watched[1]), page))
    /\ last' = [op |-> "direction", later |-> page > 1]
    /\ UNCHANGED <<productsRef, loading, search>>
    /\ UNCHANGED fetchVars

\* v-model="page": p is one of the pages UPagination offers. Neither source
\* of the watcher reads page.
SetPage(p) ==
    /\ pc # "idle"
    /\ p # page
    /\ watched' = Sources(watched[1])
    /\ page' = PageAfterWatch(Sources(watched[1]), p)
    /\ Render(Written({"page"}, PageAfterWatch(Sources(watched[1]), p)),
              products, search, sort, PageAfterWatch(Sources(watched[1]), p))
    /\ last' = [op |-> "page", later |-> page > 1]
    /\ UNCHANGED <<productsRef, loading, search, sort>>
    /\ UNCHANGED fetchVars

----------------------------------------------------------------------------
(* The page from setup on *)

Next ==
    \/ Mounted
    \/ \E initial \in ProbeBodies : ProbeResponse(initial)
    \/ \E res \in PageBodies(skip) : PageResponse(res)
    \/ RequestFails
    \/ \E q \in Queries : SetSearch(q)
    \/ \E c \in Columns : SetSortColumn(c)
    \/ toggleSortDirection
    \/ \E p \in 1..PageCount : SetPage(p)

Spec == Init /\ [][Next]_vars

\* The request in flight settles: the awaited $fetch resolves with a body, or
\* it rejects and catch logs the failure.
Settles ==
    /\ pending > 0
    /\ \/ /\ \E body \in ProbeBodies \cup PageBodies(skip) :
                responses' = Append(responses, body)
          /\ consoleErrors' = consoleErrors
       \/ /\ consoleErrors' = consoleErrors + 1
          /\ responses' = responses

\* The component is mounted, and every request sent is answered or fails.
SpecLive ==
    Spec /\ WF_vars(Mounted) /\ WF_<<responses, consoleErrors>>(Settles)

----------------------------------------------------------------------------
(* The page once a collection has been loaded *)

Range(f) == {f[i] : i \in DOMAIN f}

\* Collections of a few products in every order, repeats included.
ShortCollections == UNION {[1..n -> Range(Pool)] : n \in 0..MaxLen}

\* Collections of up to several display pages, of a length at or next to a
\* multiple of the page size, and the catalogue once: the catalogue, repeated.
LongCollections ==
    {[i \in 1..n |-> Catalogue[((i - 1) % Len(Catalogue)) + 1]] :
        n \in {m \in 0..MaxItems : \/ m % pageSize \in {0, 1, pageSize - 1}
                                   \/ m = Len(Catalogue)}}

\* The state after a fetch whose probe reported total = 1 and whose one page
\* request was answered with the collection.
InitView ==
    /\ products \in ShortCollections \cup LongCollections
    /\ productsRef = "result"
    /\ loading = FALSE
    /\ search = <<>>
    /\ sort = [column |-> "title", direction |-> "asc"]
    /\ page = 1
    /\ watched = Sources("result")
    /\ pc = "ready"
    /\ total = 1
    /\ skip = limit
    /\ result = products
    /\ requests = <<ProbeRequest, PageRequest(0)>>
    /\ responses = <<[total |-> 1], [products |-> products]>>
    /\ pending = 0
    /\ consoleErrors = 0
    /\ filteredView = products
    /\ sortedView = SortOf(products, "title", "asc")
    /\ rows = PageOf(sortedView, 1)
    /\ last = [op |-> "response", later |-> FALSE]

NextView ==
    \/ \E q \in Queries : SetSearch(q)
    \/ \E c \in Columns : SetSortColumn(c)
    \/ toggleSortDirection
    \/ \E p \in 1..PageCount : SetPage(p)

SpecView == InitView /\ [][NextView]_vars

----------------------------------------------------------------------------
(* Properties of the fetch and of the page reset *)

\* Whether the probe has answered with a total field, and the total it reported.
ProbeReported == responses # <<>> /\ "total" \in DOMAIN responses[1]

ReportedTotal == responses[1].total

\* The page bodies received so far.
PageResponses == SubSeq(responses, 2, Len(responses))

Ceil(n, d) == (n + d - 1) \div d

\* The probe followed by the page requests for a total of t.
RequestsFor(t) ==
    <<[limit |-> 1]>> \o [k \in 1..Ceil(t, 30) |-> [limit |-> 30, skip |-> 30 * (k - 1)]]

IsPrefix(a, b) == Len(a) <= Len(b) /\ a = SubSeq(b, 1, Len(a))

\* C1: whenever the sort spec changes (another column, or the direction is
\* toggled) while the page index is above 1, the page index is 1 once the
\* change has been processed.
C1_SortChangeResetsPage ==
    [][(sort' # sort /\ page > 1) => page' = 1]_vars

\* C2: whenever the search text changes to a different string (to or from the
\* empty string and to a text that matches nothing included), the page index
\* is 1 once the change has been processed.
C2_SearchChangeResetsPage ==
    [][search' # search => page' = 1]_vars

C2_Witness ==
    /\ last.op = "search"
    /\ last.later
    /\ page = 1
    /\ search # <<>>
    /\ products # <<>>
    /\ filteredProducts = <<>>

\* C3: when the probe reports a total T >= 1 and no request fails, the
\* requests are the probe (limit=1) followed by exactly ceil(T/30) page
\* requests at skip 0, 30, 60, ... in increasing order, and a request is sent
\* only when the response of the one before has arrived: never two requests
\* are outstanding.
C3_SequentialPages ==
    /\ pending \in {0, 1}
    /\ consoleErrors = 0 => Len(requests) = Len(responses) + pending
    /\ (ProbeReported /\ ReportedTotal >= 1 /\ consoleErrors = 0) =>
          /\ IsPrefix(requests, RequestsFor(ReportedTotal))
          /\ pc = "ready" => requests = RequestsFor(ReportedTotal)
          /\ \A k \in 2..Len(requests) : requests[k].skip < ReportedTotal

C3_Witness ==
    /\ pc = "ready"
    /\ ProbeReported
    /\ ReportedTotal = 45
    /\ requests = <<[limit |-> 1], [limit |-> 30, skip |-> 0],
                    [limit |-> 30, skip |-> 30]>>

\* C4: when the probe request or a page request fails, no further request is
\* sent (the failed request stays the last one), the raw collection stays
\* empty even when pages had been received, loading ends false, and the
\* failure is caught and logged: the page stays in the error state.
C4_FailureAborts ==
    pc = "error" =>
        /\ Len(requests) = Len(responses) + 1
        /\ pending = 0
        /\ products = <<>>
        /\ paginatedProducts = <<>>
        /\ loading = FALSE
        /\ consoleErrors = 1

C4_Witness ==
    /\ pc = "error"
    /\ Len(responses) = 2
    /\ "products" \in DOMAIN responses[2]
    /\ responses[2].products # <<>>
    /\ last.op = "search"

\* C5: while the fetch has started and has not finished, loading is true and
\* the raw collection is empty, so no row is visible; the records of the pages
\* already received are not visible before the last page has been received.
C5_NothingVisibleWhileLoading ==
    pc \in {"probe", "page"} =>
        /\ loading = TRUE
        /\ products = <<>>
        /\ paginatedProducts = <<>>

C5_Witness ==
    /\ pc = "page"
    /\ Len(responses) = 3
    /\ result # <<>>
    /\ last.op = "direction"

\* The records of a sequence of page bodies, in order; a body without the
\* products field has none.
RECURSIVE RecordsOf(_)
RecordsOf(bodies) ==
    IF bodies = <<>> THEN <<>>
    ELSE (IF "products" \in DOMAIN Head(bodies) THEN Head(bodies).products
          ELSE <<>>) \o RecordsOf(Tail(bodies))

\* C6: when no request fails, the raw collection after the fetch is the
\* concatenation, in request order, of the records of the page responses; a
\* page response without the products field adds nothing and neither fails the
\* fetch nor stops the page requests after it; a page of fewer than 30 records
\* is taken as it is.
C6_ConcatenationInOrder ==
    pc = "ready" =>
        /\ products = RecordsOf(PageResponses)
        /\ Len(PageResponses) = Ceil(total, 30)
        /\ consoleErrors = 0

C6_Witness ==
    /\ pc = "ready"
    /\ Len(responses) = 4
    /\ "products" \notin DOMAIN responses[2]
    /\ responses[3] = [products |-> <<P6, P5, P4, P3, P2, P1>>]
    /\ responses[4] = [products |-> <<P3>>]
    /\ products = <<P6, P5, P4, P3, P2, P1, P3>>

\* C7: the fallback total of 100 (page requests at skip 0, 30, 60, 90) is used
\* when the probe response has no total field; when the probe reports a total
\* T the loop runs with that T, so a probe reporting total = 0 sends no page
\* request and the fetch ends ready with an empty collection.
C7_ReportedTotalIsUsed ==
    /\ (responses # <<>> /\ ~ProbeReported) => total = 100
    /\ ProbeReported => total = ReportedTotal
    /\ (ProbeReported /\ ReportedTotal = 0) =>
          /\ requests = <<[limit |-> 1]>>
          /\ pc = "ready"
          /\ products = <<>>

----------------------------------------------------------------------------
(* Properties of the computed views *)

FieldNames == {"id", "title", "description", "price", "rating", "brand",
               "category", "thumbnail"}

\* The text of a field: the decimal digits of a number, the string itself.
FieldText(rec, f) ==
    IF f \in {"id", "price", "rating"} THEN NumberToString(rec[f]) ELSE rec[f]

\* q occurs in s as a run of consecutive characters.
Occurs(q, s) ==
    \E i \in 1..(Len(s) - Len(q) + 1) : \A k \in 1..Len(q) : s[i + k - 1] = q[k]

\* Some field of rec, lower-cased, contains the lower-cased q.
Matching(rec, q) ==
    \E f \in FieldNames \cap DOMAIN rec :
        Occurs(toLowerCase(q), toLowerCase(FieldText(rec, f)))

MatchingIndexes == {i \in 1..Len(products) : Matching(products[i], search)}

\* The k-th smallest element of a set of numbers.
Nth(S, k) == CHOOSE i \in S : Cardinality({j \in S : j <= i}) = k

\* C8: for an empty search text the filtered view is the raw collection, same
\* records in the same order; otherwise it is exactly the subsequence, in
\* input order, of the records of which some field, as a lower-cased string,
\* contains the lower-cased search text: no matching record is left out and
\* no other record is let in.
C8_FilterIsMatchingSubsequence ==
    IF search = <<>> THEN filteredProducts = products
    ELSE filteredProducts =
            [k \in 1..Cardinality(MatchingIndexes) |->
                products[Nth(MatchingIndexes, k)]]

C8_Witness ==
    /\ search = <<"A">>
    /\ products = Catalogue \o <<P1, P2, P3>>
    /\ filteredProducts = <<P1, P2, P4, P1, P2>>

\* Every record of the filtered view carries the selected sort field.
AllCarryColumn ==
    \A i \in 1..Len(filteredProducts) : sort.column \in DOMAIN filteredProducts[i]

\* The order of two records by the selected field, ascending: the difference
\* of numbers, the collation order of strings.
KeyOrder(a, b) ==
    IF sort.column \in {"price", "rating"} THEN a[sort.column] - b[sort.column]
    ELSE localeCompare(a[sort.column], b[sort.column])

Count(x, s) == Cardinality({i \in 1..Len(s) : s[i] = x})

\* The records of s whose key equals that of x, in the order of s.
SameKey(s, x) ==
    LET Test(r) == KeyOrder(r, x) = 0
    IN  SelectSeq(s, Test)

\* C9: when every record of the filtered view carries the selected sort field,
\* the sorted view is a permutation of the filtered view, in non-decreasing
\* order of the field for asc and non-increasing order for desc (numbers by
\* difference, strings by collation), and records of equal key keep the order
\* they have in the filtered view, in both directions.
C9_SortIsStableOrderedPermutation ==
    LET unsorted == filteredProducts
        sorted == sortedFilteredProducts
    IN  AllCarryColumn =>
          /\ Len(sorted) = Len(unsorted)
          /\ \A x \in Range(unsorted) \cup Range(sorted) :
                Count(x, sorted) = Count(x, unsorted)
          /\ \A i \in 1..(Len(sorted) - 1) :
                IF sort.direction = "asc"
                THEN KeyOrder(sorted[i], sorted[i + 1]) <= 0
                ELSE KeyOrder(sorted[i], sorted[i + 1]) >= 0
          /\ \A x \in Range(unsorted) :
                SameKey(sorted, x) = SameKey(unsorted, x)

C9_Witness ==
    /\ sort = [column |-> "price", direction |-> "desc"]
    /\ filteredProducts = Catalogue \o <<P1, P2, P3>>
    /\ sortedFilteredProducts = <<P2, P2, P1, P3, P1, P3, P5, P6, P4>>

\* Pages first to lastp of a sequence, one after the other.
RECURSIVE PagesUpTo(_, _)
PagesUpTo(items, lastp) ==
    IF lastp = 0 THEN <<>>
    ELSE PagesUpTo(items, lastp - 1) \o PageOf(items, lastp)

\* C10: for a sorted view of n records and page size 10, the page of index p
\* (from 1) is the range [(p-1)*10, (p-1)*10+10) of the view cut at n, empty
\* when it starts at n or beyond; pages 1..ceil(n/10) one after the other give
\* the sorted view back, and the last page has n mod 10 records, or 10 when n
\* is a positive multiple of 10, or 0 when n = 0.
C10_PagesPartitionSortedView ==
    LET sorted == sortedFilteredProducts
        n == Len(sorted)
        lastp == Ceil(n, 10)
    IN  /\ \A p \in 1..(lastp + 2) :
              /\ PageOf(sorted, p) =
                    [k \in 1..Max(0, Min(10, n - (p - 1) * 10)) |->
                        sorted[(p - 1) * 10 + k]]
              /\ (p - 1) * 10 >= n => PageOf(sorted, p) = <<>>
        /\ paginatedProducts = PageOf(sorted, page)
        /\ PagesUpTo(sorted, lastp) = sorted
        /\ Len(PageOf(sorted, Max(1, lastp))) =
              IF n = 0 THEN 0 ELSE IF n % 10 = 0 THEN 10 ELSE n % 10

C10_Witness ==
    /\ Len(sortedFilteredProducts) = 21
    /\ page = 3
    /\ paginatedProducts = <<sortedFilteredProducts[21]>>

----------------------------------------------------------------------------
(* Properties of the page as a whole *)

\* C11: in every reachable state, whatever the order of fetch steps and user
\* inputs before it, the rows shown are paginate(sort(filter(raw collection,
\* query), sort spec), page index, 10), and so are the values the filtered and
\* the sorted view hold: the rows depend on nothing but the raw collection,
\* the query, the sort spec and the page index.
C11_RowsArePureFunctionOfState ==
    /\ filteredView = FilterOf(products, search)
    /\ sortedView = SortOf(FilterOf(products, search), sort.column, sort.direction)
    /\ rows = slice(SortOf(FilterOf(products, search), sort.column, sort.direction),
                    (page - 1) * 10, (page - 1) * 10 + 10)

C11_Witness ==
    /\ pc = "ready"
    /\ last.op = "direction"
    /\ sort = [column |-> "price", direction |-> "desc"]
    /\ page = 2
    /\ Len(rows) \in 1..9

Reverse(s) == [i \in 1..Len(s) |-> s[Len(s) + 1 - i]]

\* Every record of the filtered view has a key in the selected field and no
\* two of them have equal keys.
DistinctKeys ==
    /\ AllCarryColumn
    /\ \A i, j \in 1..Len(filteredProducts) :
          i < j => KeyOrder(filteredProducts[i], filteredProducts[j]) # 0

\* C12: when the records have pairwise distinct keys in the selected field,
\* the view sorted desc is the reverse of the view sorted asc, so the sorted
\* view held after two toggles of the direction is the one held before them.
C12_DescendingIsReverseOfAscending ==
    LET ascending == SortOf(filteredProducts, sort.column, "asc")
        descending == SortOf(filteredProducts, sort.column, "desc")
    IN  DistinctKeys =>
          /\ descending = Reverse(ascending)
          /\ ascending = Reverse(descending)
          /\ sortedView = IF sort.direction = "asc" THEN ascending
                          ELSE Reverse(ascending)

C12_Witness ==
    /\ DistinctKeys
    /\ last.op = "direction"
    /\ sort = [column |-> "price", direction |-> "desc"]
    /\ filteredView = <<P1, P2, P4>>
    /\ sortedView = <<P2, P1, P4>>

\* C13: a page selection to p, with nothing else happening, leaves the page
\* index at p (the watcher does not set it back to 1) and leaves the raw
\* collection, the query, the sort spec, the filtered view and the sorted view
\* as they are.
C13_PageSelectionOnlySetsPage ==
    [][\A p \in 1..PageCount :
          SetPage(p) =>
            /\ page' = p
            /\ products' = products
            /\ search' = search
            /\ sort' = sort
            /\ filteredView' = filteredView
            /\ sortedView' = sortedView
            /\ rows' = PageOf(sortedView, p)]_vars

C13_Witness ==
    /\ last.op = "page"
    /\ ~last.later
    /\ page = 2
    /\ search = <<>>
    /\ sort.column = "rating"

\* C14: computing the sorted view changes neither the raw collection nor the
\* filtered view, also when the query is empty and the filtered view is the
\* raw collection itself: after any sort column changes and direction toggles
\* the raw collection is the sequence the fetch assigned, and the filtered
\* view is in the order of the raw collection.
C14_SortLeavesCollectionAlone ==
    /\ products = IF pc = "ready" THEN RecordsOf(PageResponses) ELSE <<>>
    /\ IF search = <<>> THEN filteredView = products
       ELSE filteredView = [k \in 1..Cardinality(MatchingIndexes) |->
                               products[Nth(MatchingIndexes, k)]]

C14_Witness ==
    /\ pc = "ready"
    /\ last.op = "column"
    /\ search = <<>>
    /\ Len(products) > 1
    /\ sortedView # products
    /\ filteredView = products

Phase(at) ==
    IF at = "idle" THEN "Idle"
    ELSE IF at \in {"probe", "page"} THEN "Loading"
    ELSE IF at = "ready" THEN "Ready"
    ELSE "Error"

\* C15: the page goes Idle -> Loading -> Ready, or Loading -> Error on a
\* failure, and Ready and Error are final: the probe is sent once, from Idle;
\* the raw collection is assigned once on success and never on failure; and
\* once loading is false again nothing changes the raw collection, sets
\* loading again or sends a request.
C15_LoadsOnce ==
    [][/\ <<Phase(pc), Phase(pc')>> \in
            {<<"Idle", "Idle">>, <<"Idle", "Loading">>, <<"Loading", "Loading">>,
             <<"Loading", "Ready">>, <<"Loading", "Error">>,
             <<"Ready", "Ready">>, <<"Error", "Error">>}
       /\ loading' = (Phase(pc') = "Loading")
       /\ (Len(requests') > Len(requests) /\ "skip" \notin DOMAIN requests'[Len(requests')])
             => Phase(pc) = "Idle"
       /\ (products' # products \/ productsRef' # productsRef)
             => (Phase(pc) = "Loading" /\ Phase(pc') = "Ready")
       /\ (Phase(pc) = "Loading" /\ Phase(pc') = "Ready")
             => (productsRef = "initial" /\ productsRef' = "result")
       /\ Phase(pc') = "Error" => (productsRef' = "initial" /\ products' = <<>>)
       /\ Phase(pc) \in {"Ready", "Error"}
             => (requests' = requests /\ loading' = FALSE /\ pending' = 0)]_vars

C15_Witness ==
    /\ pc = "ready"
    /\ last.op = "column"
    /\ search # <<>>
    /\ products # <<>>
    /\ Len(requests) = 5

UserOps == {"search", "column", "direction", "page"}

\* C16: given that every request sent is answered or fails, the fetch ends:
\* loading becomes false and stays false, whatever the user does meanwhile; a
\* user input neither ends the fetch nor changes the requests sent nor the
\* raw collection.
C16_FetchEnds ==
    /\ <>[](loading = FALSE /\ pc \in {"ready", "error"})
    /\ [][last'.op \in UserOps =>
            UNCHANGED <<pc, total, skip, result, requests, responses, pending,
                        products, loading>>]_vars

C16_Witness ==
    /\ pc = "ready"
    /\ loading = FALSE
    /\ last.op = "response"
    /\ search # <<>>
    /\ sort.direction = "desc"
    /\ products # <<>>

\* C17: with page selections among the pages 1..max(1, ceil(n/10)) of the
\* sorted view of n records, the page index is within 1..max(1, ceil(n/10))
\* in every reachable state, so the page shown has a row whenever the sorted
\* view has a record.
C17_PageIndexInRange ==
    LET n == Len(sortedFilteredProducts)
    IN  /\ page \in 1..Max(1, Ceil(n, 10))
        /\ n > 0 => (paginatedProducts # <<>> /\ rows # <<>>)

C17_Witness ==
    /\ last.op = "search"
    /\ last.later
    /\ page = 1
    /\ Len(sortedView) \in 1..10
    /\ Len(products) > 10

\* The two values the comparator is given are neither both strings nor both
\* numbers.
Uncovered(a, b) ==
    \/ sort.column \notin DOMAIN a
    \/ sort.column \notin DOMAIN b

\* C18: when the two values compared are neither both strings nor both
\* numbers, as for a record without the selected field, the comparator
\* answers equal, and the sorted view is still a permutation of the filtered
\* view: no record is lost and none doubled.
C18_MissingFieldComparesEqual ==
    LET unsorted == filteredProducts
        sorted == sortedFilteredProducts
    IN  ~AllCarryColumn =>
          /\ \A i, j \in 1..Len(unsorted) :
                Uncovered(unsorted[i], unsorted[j]) =>
                    compare(unsorted[i], unsorted[j], sort.column, sort.direction) = 0
          /\ Len(sorted) = Len(unsorted)
          /\ \A x \in Range(unsorted) \cup Range(sorted) :
                Count(x, sorted) = Count(x, unsorted)

C18_Witness ==
    /\ sort = [column |-> "brand", direction |-> "desc"]
    /\ filteredView = Catalogue
    /\ Len(sortedView) = Len(Catalogue)

====
